---------------------------- MODULE Spec2Model ----------------------------
(***************************************************************************)
(* A model of site-learn-ai: the project-creation request (POST            *)
(* /api/projects), the page and repository analyses of                     *)
(* lib/analysis-service.ts, the repository walk, and the LearningPlugin    *)
(* runtime that lib/api.ts compiles.                                       *)
(*                                                                         *)
(* JavaScript values are records [t, s, p]: t the type, s the payload of   *)
(* a scalar, p the own enumerable properties (a function from property     *)
(* names to leaves [t, s]).  A raw response of the generation backend is   *)
(* a text; JSONParse gives the value JSON.parse returns for it, or Throws. *)
(***************************************************************************)
EXTENDS Integers, Sequences, FiniteSets, TLC

NoProps == [k \in {} |-> [t |-> "string", s |-> ""]]

Str(s) == [t |-> "string", s |-> s]
Num(s) == [t |-> "number", s |-> s]

JObject(props) == [t |-> "object", s |-> "", p |-> props]
JArray(props) == [t |-> "array", s |-> "", p |-> props]
JString(s, props) == [t |-> "string", s |-> s, p |-> props]
JNumber(s) == [t |-> "number", s |-> s, p |-> NoProps]
JNull == [t |-> "null", s |-> "", p |-> NoProps]
Throws == [t |-> "throws", s |-> "SyntaxError", p |-> NoProps]

(* property maps: a :> b is the one-entry map, f @@ g prefers f *)
Entry(k, v) == k :> Str(v)

(***************************************************************************)
(* The raw response texts the generation backend may return.               *)
(***************************************************************************)
RespA == "{\"main-header\":\"Site header\"}"
RespAB == "{\"main-header\":\"Top bar\",\"login-button\":\"Signs in\"}"
RespEmpty == "{}"
RespArray == "[\"nav\"]"
RespNull == "null"
RespNumber == "42"
RespString == "\"ok\""
RespNonString == "{\"count\":1}"
RespProse == "Here is the JSON you asked for"

Responses ==
  {RespA, RespAB, RespEmpty, RespArray, RespNull, RespNumber, RespString,
   RespNonString, RespProse}

(* JSON.parse(text): the value, or Throws for a text that is not JSON *)
JSONParse(text) ==
  CASE text = RespA -> JObject(Entry("main-header", "Site header"))
    [] text = RespAB ->
         JObject(Entry("main-header", "Top bar") @@ Entry("login-button", "Signs in"))
    [] text = RespEmpty -> JObject(NoProps)
    [] text = RespArray -> JArray(Entry("0", "nav"))
    [] text = RespNull -> JNull
    [] text = RespNumber -> JNumber("42")
    [] text = RespString -> JString("ok", Entry("0", "o") @@ Entry("1", "k"))
    [] text = RespNonString -> JObject("count" :> Num("1"))
    [] OTHER -> Throws

(* the own enumerable properties Object.assign copies from a source:
   those of an object or an array, the indexed characters of a string,
   none of a number, and null is skipped *)
OwnProps(v) == IF v.t \in {"object", "array", "string"} THEN v.p ELSE NoProps

(* Object.assign(target, source) on property maps: the source's entries
   overwrite the target's *)
ObjectAssign(target, source) ==
  [k \in DOMAIN target \cup DOMAIN OwnProps(source) |->
     IF k \in DOMAIN OwnProps(source) THEN OwnProps(source)[k] ELSE target[k]]

(* Object.keys(functionMap).length *)
KeyCount(props) == Cardinality(DOMAIN props)

WebsiteFallback ==
  JObject(Entry("main-header", "The main navigation header of the website")
          @@ Entry("hero-section", "The primary hero section introducing the website")
          @@ Entry("content-area", "Main content area with key information")
          @@ Entry("footer", "Website footer with additional links and information"))

RepositoryFallback ==
  JObject(Entry("app-component", "Main application component")
          @@ Entry("user-interface", "User interface elements")
          @@ Entry("navigation", "Application navigation system")
          @@ Entry("content-display", "Content display components"))

(* analyzeWebsite, lines 93-103: the parsed response, whatever it is, or the
   fallback when JSON.parse throws *)
WebsiteResult(text) ==
  IF JSONParse(text) = Throws THEN WebsiteFallback ELSE JSONParse(text)

(* analyzeRepository, lines 141-148: one file's response merged into the
   accumulating map; a response JSON.parse rejects is caught and skipped *)
MergeFile(props, text) ==
  IF JSONParse(text) = Throws THEN props ELSE ObjectAssign(props, JSONParse(text))

(* analyzeRepository, lines 155-160 *)
RepositoryResult(props) ==
  IF KeyCount(props) > 0 THEN JObject(props) ELSE RepositoryFallback


(***************************************************************************)
(* Directory trees.  A name is the sequence of its parts between dots:     *)
(* <<"index", "ts">> is index.ts, <<"", "eslintrc", "js">> is .eslintrc.js *)
(* and <<"node_modules">> is node_modules.  An entry is a file, a          *)
(* directory with its items in readdir order, or a dangling link, on which *)
(* statSync throws.                                                        *)
(***************************************************************************)
File(name) == [name |-> name, kind |-> "file", items |-> <<>>]
Dir(name, items) == [name |-> name, kind |-> "dir", items |-> items]
Dangling(name) == [name |-> name, kind |-> "dangling", items |-> <<>>]

(* item.startsWith('.') *)
StartsWithDot(name) == Len(name) > 1 /\ name[1] = ""

(* path.extname(item): from the last dot, "" when the name has no dot or its
   only dot is the first character *)
ExtName(name) ==
  IF Len(name) = 1 \/ (Len(name) = 2 /\ name[1] = "") THEN <<>>
  ELSE <<"", name[Len(name)]>>

RelevantExtensions ==
  {<<"", "js">>, <<"", "jsx">>, <<"", "ts">>, <<"", "tsx">>, <<"", "html">>,
   <<"", "vue">>, <<"", "py">>, <<"", "php">>}

ExcludedDirs == {<<"node_modules">>, <<"dist">>, <<"build">>}

(* scanDirectory, lines 175-195: the files array after the items of
   currentDir, in order, have been scanned *)
RECURSIVE ScanDirectory(_, _, _)
ScanDirectory(items, currentDir, files) ==
  IF items = <<>> THEN files
  ELSE
    LET item == Head(items)
        fullPath == Append(currentDir, item.name)
        scanned ==
          IF item.kind = "dir" /\ ~StartsWithDot(item.name)
             /\ item.name \notin ExcludedDirs
          THEN ScanDirectory(item.items, fullPath, files)
          ELSE IF item.kind = "file" /\ ExtName(item.name) \in RelevantExtensions
          THEN Append(files, [name |-> item.name, path |-> fullPath,
                              extension |-> ExtName(item.name)])
          ELSE files
    IN ScanDirectory(Tail(items), currentDir, scanned)

(* statSync(fullPath) throws somewhere in the scan: a dangling link in a
   directory the scan enters *)
RECURSIVE ScanThrows(_)
ScanThrows(items) ==
  \E i \in 1..Len(items) :
    \/ items[i].kind = "dangling"
    \/ /\ items[i].kind = "dir"
       /\ ~StartsWithDot(items[i].name)
       /\ items[i].name \notin ExcludedDirs
       /\ ScanThrows(items[i].items)

(* getRelevantFiles(dir), lines 171-199 *)
GetRelevantFiles(items) == ScanDirectory(items, <<>>, <<>>)

(* files.slice(0, 10), line 125 *)
FileLimit == 10
Slice(files) == SubSeq(files, 1, IF Len(files) < FileLimit THEN Len(files) ELSE FileLimit)

(* the paths of all files of a tree: what readFileSync can open *)
RECURSIVE AllFiles(_, _)
AllFiles(items, currentDir) ==
  UNION {IF items[i].kind = "file" THEN {Append(currentDir, items[i].name)}
         ELSE IF items[i].kind = "dir"
         THEN AllFiles(items[i].items, Append(currentDir, items[i].name))
         ELSE {} : i \in 1..Len(items)}

(***************************************************************************)
(* The repositories a githubUrl may name.                                  *)
(***************************************************************************)
TreeSmall ==
  <<File(<<"index", "ts">>),
    File(<<"README", "md">>),
    Dir(<<"node_modules">>, <<File(<<"lib", "js">>)>>),
    Dir(<<"src">>, <<File(<<"App", "tsx">>),
                     Dir(<<"dist">>, <<File(<<"bundle", "js">>)>>),
                     Dir(<<"", "cache">>, <<File(<<"tmp", "js">>)>>)>>),
    Dir(<<"", "git">>, <<File(<<"hook", "py">>)>>)>>

TreeHidden ==
  <<File(<<"", "eslintrc", "js">>),
    Dir(<<"src">>, <<File(<<"", "env">>), File(<<"main", "py">>)>>)>>

TreeEmpty == <<File(<<"README", "md">>), Dir(<<"build">>, <<File(<<"out", "js">>)>>)>>

TreeDangling == <<File(<<"a", "js">>), Dir(<<"src">>, <<Dangling(<<"link">>)>>)>>

FileNames == <<"one", "two", "three", "four">>
ManyFiles(prefix) == [i \in 1..Len(FileNames) |-> File(<<prefix, FileNames[i], "vue">>)]

TreeBig ==
  <<Dir(<<"app">>, ManyFiles("a") \o <<Dir(<<"deep">>, ManyFiles("d"))>>),
    Dir(<<"lib">>, ManyFiles("l"))>>

UrlSmall == "https://github.com/o/small"
UrlHidden == "https://github.com/o/hidden"
UrlEmpty == "https://github.com/o/empty"
UrlDangling == "https://github.com/o/dangling"
UrlBig == "https://github.com/o/big"
UrlMissing == "https://github.com/o/missing"

RepoUrls == {UrlSmall, UrlHidden, UrlEmpty, UrlDangling, UrlBig, UrlMissing}

(* whether the source control backend can clone the url, and what it holds *)
Clonable(url) == url \in RepoUrls \ {UrlMissing}

RepoTree(url) ==
  CASE url = UrlSmall -> TreeSmall
    [] url = UrlHidden -> TreeHidden
    [] url = UrlEmpty -> TreeEmpty
    [] url = UrlDangling -> TreeDangling
    [] url = UrlBig -> TreeBig
    [] OTHER -> <<>>


(***************************************************************************)
(* The state.  now is Date.now(); disk is the temp directory of the        *)
(* server, one possible entry repo-<stamp> per clock value; run holds each *)
(* request's locals; projects, activity and sequence are the database.     *)
(***************************************************************************)
VARIABLES now, disk, run, projects, activity, sequence

(* reply is the answer to the last read or delete request; projectStorage
   is the in-memory Map of api/analyze-project.ts, from keys to maps. *)
VARIABLES reply, projectStorage

(* whether the database of this build enforces foreign keys (PRAGMA
   foreign_keys): the schema declares one and the code sets no pragma *)
VARIABLE foreignKeys

(* The LearningPlugin of a host page: FUNCTION_MAP is the embedded map,
   elements the data-learn-id values of the document's marked elements in
   document order, body the plugin's nodes attached to document.body,
   timers the pending close timers, listeners the listeners registered on
   window and document; created counts the modals opened so far and
   triggered holds the modals a close trigger was dispatched to, closing
   the modals that closeModal has set a close timer for. *)
VARIABLES FUNCTION_MAP, elements, isActive, infoButtons, currentModal, body,
          timers, listeners, created, triggered, closing

(* The startup of the plugin's fetching variant (components/ProjectsList.tsx):
   its position, the key it read from its script tag, how the fetch of the
   function map ended and the number of console.error calls. *)
VARIABLE loader

(* The mock storage of the front end (lib/analysis-service.ts, lines
   247-337): localStorage holds the items of the activity log and of the
   next id; added is the history of the activities addActivity was called
   with, the newest first. *)
VARIABLES localStorage, added

MaxClock == 1

Runs == {"r1", "r2"}

Stamps == 0..MaxClock

JUndefined == [t |-> "undefined", s |-> "", p |-> NoProps]

NoCalls == [launch |-> 0, clone |-> 0, generate |-> 0, insert |-> 0]

NoKey == [prefix |-> "", encoding |-> "", length |-> 0, bytes |-> 0]

NoResponse ==
  [status |-> 0, error |-> "", id |-> 0, apiKey |-> NoKey, functionMap |-> JUndefined]

IdleRun ==
  [pc |-> "idle", projectName |-> "", scrapeUrl |-> "", githubUrl |-> "",
   apiKey |-> NoKey, browser |-> "none", tempDir |-> 0, files |-> <<>>,
   idx |-> 0, functionMap |-> NoProps, calls |-> NoCalls, walked |-> "",
   caught |-> "",
   heard |-> [valid |-> FALSE, invalid |-> FALSE, threw |-> FALSE, union |-> NoProps,
              strict |-> NoProps],
   response |-> NoResponse]

(* a JavaScript string is truthy unless it is empty; an absent field of the
   request body is "" here *)
Truthy(s) == s # ""

(* 'learn_' + crypto.randomBytes(16).toString('hex'): two hex digits a byte *)
RandomBytes == 16
ApiKey(n) ==
  [prefix |-> "learn_", encoding |-> "hex", length |-> 2 * RandomBytes, bytes |-> n]

NoReply ==
  [op |-> "", param |-> "", key |-> NoKey, status |-> 0, error |-> "", body |-> <<>>]

(* new Map() *)
EmptyStorage == [k \in {} |-> NoProps]

(* JSON.stringify of a function map, as stored in the function_map column,
   and JSON.parse of a stored text *)
JSONStringify(v) == [json |-> v]
ParseStored(text) == text.json


server ==
  <<now, disk, run, projects, activity, sequence, reply, projectStorage, foreignKeys>>
page == <<FUNCTION_MAP, elements, isActive, infoButtons, currentModal, body,
          timers, listeners, created, triggered, closing, loader>>

(* the variant with the map embedded has no startup to run *)
NoLoader == [pc |-> "embedded", apiKey |-> "", outcome |-> "", logged |-> 0]
frontend == <<localStorage, added>>

(* getItem of a key nothing was stored under *)
NoItem == [kind |-> "null"]
EmptyLocalStorage == [activities |-> NoItem, nextId |-> NoItem]

vars == <<server, page, frontend>>

(* the server as it starts: an empty database, an empty temp directory, no
   request received *)
Init ==
  /\ now = 0
  /\ disk = [d \in Stamps |-> [exists |-> FALSE, url |-> ""]]
  /\ run = [r \in Runs |-> IdleRun]
  /\ projects = <<>>
  /\ activity = <<>>
  /\ sequence = 0
  /\ reply = NoReply
  /\ projectStorage = EmptyStorage
  /\ foreignKeys = TRUE
  /\ FUNCTION_MAP = [k \in {} |-> [t |-> "string", s |-> ""]]
  /\ elements = <<>>
  /\ isActive = FALSE
  /\ infoButtons = <<>>
  /\ currentModal = 0
  /\ body = {}
  /\ timers = 0
  /\ listeners = [keydown |-> 0, scroll |-> 0, resize |-> 0]
  /\ created = 0
  /\ triggered = {}
  /\ closing = {}
  /\ localStorage = EmptyLocalStorage
  /\ added = <<>>
  /\ loader = NoLoader

(* the clock advances *)
Tick ==
  /\ now < MaxClock
  /\ now' = now + 1
  /\ UNCHANGED <<disk, run, projects, activity, sequence>>
  /\ UNCHANGED <<reply, projectStorage, foreignKeys, page, frontend>>

Called(rec, what) == [rec EXCEPT !.calls[what] = @ + 1]

(* A raw response is valid when it is the text of a JSON object.  heard
   records, for the request, whether a valid and whether an invalid response
   arrived, whether a generation call for a file threw, and the union of the
   valid ones' entries, later ones winning: it is what the responses were,
   not what the code made of them. *)
ValidResponse(text) == JSONParse(text).t = "object"

(* the text of a JSON object all of whose entries have a non-empty name and
   a non-empty string for value *)
StringToString(text) ==
  /\ JSONParse(text).t = "object"
  /\ \A k \in DOMAIN JSONParse(text).p :
       /\ k # ""
       /\ JSONParse(text).p[k].t = "string"
       /\ JSONParse(text).p[k].s # ""

Over(props, text) ==
  [k \in DOMAIN props \cup DOMAIN JSONParse(text).p |->
     IF k \in DOMAIN JSONParse(text).p THEN JSONParse(text).p[k] ELSE props[k]]

(* heard.strict is the union of the entries of the responses that are
   objects of strings to strings *)
Heard(rec, text) ==
  [rec EXCEPT !.heard =
     [IF ValidResponse(text)
      THEN [@ EXCEPT !.valid = TRUE, !.union = Over(@, text)]
      ELSE [@ EXCEPT !.invalid = TRUE]
      EXCEPT !.strict = IF StringToString(text) THEN Over(@, text) ELSE @]]

(***************************************************************************)
(* dbOperations (lib/database.ts)                                          *)
(***************************************************************************)
(* createProject: the INSERT; api_key is UNIQUE, so the statement throws
   when a row already holds the key *)
(* a table whose api_key column has no constraint *)
InsertNeverThrows(key) == FALSE

InsertThrows(key) == \E i \in 1..Len(projects) : projects[i].api_key = key

NewRow(rec, functionMap) ==
  [id |-> sequence + 1, project_name |-> rec.projectName, api_key |-> rec.apiKey,
   github_url |-> rec.githubUrl, scrape_url |-> rec.scrapeUrl,
   function_map |-> JSONStringify(functionMap)]

(* an activity record that names the first project *)
ActivityOfFirstProject(projectId, action) ==
  [id |-> Len(activity) + 1, project_id |-> 1, action |-> action]

(* logActivity *)
NewActivity(projectId, action) ==
  [id |-> Len(activity) + 1, project_id |-> projectId, action |-> action]

(***************************************************************************)
(* POST /api/projects, lines 26-58: what follows the await of             *)
(* analyzeProject.  result is the AnalysisResult.                          *)
(***************************************************************************)
Error(status, message) == [NoResponse EXCEPT !.status = status, !.error = message]

(* a failure of the read that follows the insert *)
ReadBackThrows(row) == Error(500, "Failed to create project")

(* the response built from the row read back, lines 42-53 *)
Created(row) ==
  [status |-> 200, error |-> "", id |-> row.id, apiKey |-> row.api_key,
   functionMap |-> ParseStored(row.function_map)]

AfterAnalysis(r, rec, result) ==
  IF ~result.success
  THEN /\ run' = [run EXCEPT ![r] =
                    [rec EXCEPT !.pc = "done", !.response = Error(500, result.error)]]
       /\ UNCHANGED <<projects, activity, sequence>>
  ELSE IF InsertThrows(rec.apiKey)
  THEN /\ run' = [run EXCEPT ![r] =
                    [Called(rec, "insert") EXCEPT
                       !.pc = "done",
                       !.response = Error(500, "Failed to create project")]]
       /\ UNCHANGED <<projects, activity, sequence>>
  ELSE LET row == NewRow(rec, result.functionMap) IN
       /\ projects' = Append(projects, row)
       /\ sequence' = sequence + 1
       /\ activity' = Append(activity, NewActivity(row.id, "Project created"))
       /\ run' = [run EXCEPT ![r] =
                    [Called(rec, "insert") EXCEPT
                       !.pc = "done",
                       !.response = Created(row)]]

(* analyzeProject, lines 34-38: the result of a run that returned a map, and
   of one that threw *)
Succeeded(functionMap) == [success |-> TRUE, error |-> "", functionMap |-> functionMap]

(* a failed analysis to which a fallback map is given *)
FailedWithFallback(message) ==
  [success |-> TRUE, error |-> "", functionMap |-> RepositoryFallback]

Failed(message) == [success |-> FALSE, error |-> message, functionMap |-> JObject(NoProps)]

(***************************************************************************)
(* POST /api/projects, lines 7-24, to the first await of the analysis:     *)
(* validation, the key, and analyzeProject's choice of a path.             *)
(***************************************************************************)
Receive(r, names, scrapes, githubs, nonces) ==
  /\ run[r].pc = "idle"
  /\ \E projectName \in names, scrapeUrl \in scrapes, githubUrl \in githubs, n \in nonces :
       LET rec == [run[r] EXCEPT !.projectName = projectName,
                                 !.scrapeUrl = scrapeUrl,
                                 !.githubUrl = githubUrl]
       IN
       IF ~Truthy(projectName)
       THEN run' = [run EXCEPT ![r] =
                      [rec EXCEPT !.pc = "done",
                                  !.response = Error(400, "Project name is required")]]
       ELSE IF ~Truthy(scrapeUrl) /\ ~Truthy(githubUrl)
       THEN run' = [run EXCEPT ![r] =
                      [rec EXCEPT !.pc = "done",
                                  !.response =
                                     Error(400, "Either scrapeUrl or githubUrl is required")]]
       ELSE IF Truthy(scrapeUrl)
       THEN run' = [run EXCEPT ![r] =
                      [Called(rec, "launch") EXCEPT !.pc = "launch", !.apiKey = ApiKey(n)]]
       ELSE run' = [run EXCEPT ![r] =
                      [Called(rec, "clone") EXCEPT !.pc = "clone", !.apiKey = ApiKey(n),
                                                   !.tempDir = now]]
  /\ UNCHANGED <<now, disk, projects, activity, sequence>>
  /\ UNCHANGED <<reply, projectStorage, foreignKeys, page, frontend>>

(***************************************************************************)
(* analyzeWebsite, lines 41-108, one action per await.                     *)
(***************************************************************************)
(* chromium.launch settles; it is awaited outside the try *)
Launch(r) ==
  /\ run[r].pc = "launch"
  /\ \/ /\ run' = [run EXCEPT ![r] = [@ EXCEPT !.pc = "newPage", !.browser = "open"]]
        /\ UNCHANGED <<projects, activity, sequence>>
     \/ AfterAnalysis(r, [run[r] EXCEPT !.caught = "browser launch failed"],
                      Failed("browser launch failed"))
  /\ UNCHANGED <<now, disk>>
  /\ UNCHANGED <<reply, projectStorage, foreignKeys, page, frontend>>

(* browser.newPage settles; it too is awaited outside the try *)
NewPage(r) ==
  /\ run[r].pc = "newPage"
  /\ \/ /\ run' = [run EXCEPT ![r] = [@ EXCEPT !.pc = "goto"]]
        /\ UNCHANGED <<projects, activity, sequence>>
     \/ AfterAnalysis(r, [run[r] EXCEPT !.caught = "page creation failed"],
                      Failed("page creation failed"))
  /\ UNCHANGED <<now, disk>>
  /\ UNCHANGED <<reply, projectStorage, foreignKeys, page, frontend>>

(* page.goto settles: the evaluation is issued, or the catch awaits
   browser.close() *)
Goto(r) ==
  /\ run[r].pc = "goto"
  /\ \/ run' = [run EXCEPT ![r] = [@ EXCEPT !.pc = "evaluate"]]
     \/ run' = [run EXCEPT ![r] = [@ EXCEPT !.pc = "catch", !.caught = "navigation failed"]]
  /\ UNCHANGED <<now, disk, projects, activity, sequence>>
  /\ UNCHANGED <<reply, projectStorage, foreignKeys, page, frontend>>

(* page.evaluate settles *)
Evaluate(r) ==
  /\ run[r].pc = "evaluate"
  /\ \/ run' = [run EXCEPT ![r] = [@ EXCEPT !.pc = "close"]]
     \/ run' = [run EXCEPT ![r] = [@ EXCEPT !.pc = "catch", !.caught = "evaluation failed"]]
  /\ UNCHANGED <<now, disk, projects, activity, sequence>>
  /\ UNCHANGED <<reply, projectStorage, foreignKeys, page, frontend>>

(* browser.close() of line 70 settles; the generation call is issued *)
Close(r) ==
  /\ run[r].pc = "close"
  /\ run' = [run EXCEPT ![r] =
               [Called(@, "generate") EXCEPT !.pc = "generatePage", !.browser = "closed"]]
  /\ UNCHANGED <<now, disk, projects, activity, sequence>>
  /\ UNCHANGED <<reply, projectStorage, foreignKeys, page, frontend>>

(* generateContent settles: its text is parsed and returned, or it throws *)
GeneratePage(r, responses) ==
  /\ run[r].pc = "generatePage"
  /\ \/ /\ run' = [run EXCEPT ![r] =
                     [@ EXCEPT !.pc = "catch", !.caught = "generation failed"]]
        /\ UNCHANGED <<projects, activity, sequence>>
     \/ \E text \in responses :
          AfterAnalysis(r, Heard(run[r], text), Succeeded(WebsiteResult(text)))
  /\ UNCHANGED <<now, disk>>
  /\ UNCHANGED <<reply, projectStorage, foreignKeys, page, frontend>>

(* the catch of lines 104-107: browser.close() settles and the error is
   thrown again *)
CatchClose(r) ==
  /\ run[r].pc = "catch"
  /\ AfterAnalysis(r, [run[r] EXCEPT !.browser = "closed"], Failed(run[r].caught))
  /\ UNCHANGED <<now, disk>>
  /\ UNCHANGED <<reply, projectStorage, foreignKeys, page, frontend>>


(***************************************************************************)
(* analyzeRepository, lines 110-169.  The clone is a git process; what     *)
(* follows each await runs to the next await without interruption.         *)
(***************************************************************************)
Removed(d) == [disk EXCEPT ![d] = [exists |-> FALSE, url |-> ""]]

(* the catch without its cleanup *)
CatchWithoutCleanup(d) == disk

(* lines 163-166: the cleanup of the catch *)
CatchCleanup(d) == IF disk[d].exists THEN Removed(d) ELSE disk

(* line 152: the cleanup of the success path *)
Cleanup(d) == Removed(d)

(* lines 162-168, then analyzeProject's catch and the rest of POST *)
Throw(r, rec, message) ==
  /\ disk' = CatchCleanup(rec.tempDir)
  /\ AfterAnalysis(r, [rec EXCEPT !.caught = message], Failed(message))

(* git clone <url> <tempDir> ends: it refuses a destination that exists and
   is not empty, and fails on a url it cannot fetch *)
GitClone(r) ==
  /\ run[r].pc = "clone"
  /\ LET d == run[r].tempDir IN
     IF disk[d].exists
     THEN /\ run' = [run EXCEPT ![r] =
                       [@ EXCEPT !.pc = "cloneFailed", !.caught = "destination path already exists"]]
          /\ UNCHANGED disk
     ELSE IF ~Clonable(run[r].githubUrl)
     THEN /\ run' = [run EXCEPT ![r] =
                       [@ EXCEPT !.pc = "cloneFailed", !.caught = "repository not found"]]
          /\ UNCHANGED disk
     ELSE /\ run' = [run EXCEPT ![r] = [@ EXCEPT !.pc = "cloned"]]
          /\ disk' = [disk EXCEPT ![d] = [exists |-> TRUE, url |-> run[r].githubUrl]]
  /\ UNCHANGED <<now, projects, activity, sequence>>
  /\ UNCHANGED <<reply, projectStorage, foreignKeys, page, frontend>>

(* the await of git.clone rejects *)
CloneFailed(r) ==
  /\ run[r].pc = "cloneFailed"
  /\ Throw(r, run[r], run[r].caught)
  /\ UNCHANGED now
  /\ UNCHANGED <<reply, projectStorage, foreignKeys, page, frontend>>

(* readFileSync(file.path, 'utf-8') finds the file *)
Readable(d, path) ==
  disk[d].exists /\ path \in AllFiles(RepoTree(disk[d].url), <<>>)

(* lines 125-160 from the i-th file of files.slice(0, 10) on, to the next
   await or to the return *)
Loop(r, rec, i) ==
  IF i > Len(Slice(rec.files))
  THEN /\ disk' = Cleanup(rec.tempDir)
       /\ AfterAnalysis(r, rec, Succeeded(RepositoryResult(rec.functionMap)))
  ELSE IF ~Readable(rec.tempDir, rec.files[i].path)
  THEN Throw(r, rec, "ENOENT: no such file or directory")
  ELSE /\ run' = [run EXCEPT ![r] =
                    [Called(rec, "generate") EXCEPT !.pc = "generateFile", !.idx = i]]
       /\ UNCHANGED <<disk, projects, activity, sequence>>

(* the await of git.clone resolves: lines 119-126 *)
Walk(r) ==
  /\ run[r].pc = "cloned"
  /\ LET d == run[r].tempDir IN
     IF ~disk[d].exists
     THEN Throw(r, run[r], "ENOENT: no such file or directory, scandir")
     ELSE IF ScanThrows(RepoTree(disk[d].url))
     THEN Throw(r, run[r], "ENOENT: no such file or directory, stat")
     ELSE Loop(r, [run[r] EXCEPT !.files = GetRelevantFiles(RepoTree(disk[d].url)),
                                 !.walked = disk[d].url,
                                 !.functionMap = NoProps], 1)
  /\ UNCHANGED now
  /\ UNCHANGED <<reply, projectStorage, foreignKeys, page, frontend>>

(* a generation call that throws, with the batch given up *)
AbortBatch(r) ==
  Throw(r, [run[r] EXCEPT !.heard.threw = TRUE], "generation failed")

(* lines 146-148: the catch logs the failure and the loop goes on *)
SkipFile(r) == Loop(r, [run[r] EXCEPT !.heard.threw = TRUE], run[r].idx + 1)

(* generateContent for one file settles, lines 141-148: a failure is caught
   and logged, a text is parsed and merged *)
GenerateFile(r, responses) ==
  /\ run[r].pc = "generateFile"
  /\ \/ SkipFile(r)
     \/ \E text \in responses :
          Loop(r, [Heard(run[r], text) EXCEPT !.functionMap = MergeFile(@, text)],
               run[r].idx + 1)
  /\ UNCHANGED now
  /\ UNCHANGED <<reply, projectStorage, foreignKeys, page, frontend>>

(***************************************************************************)
(* The requests that read the store or delete from it.  Each is one        *)
(* synchronous handler: client r sends it when it awaits no other answer,  *)
(* and reply is what it is answered.                                       *)
(***************************************************************************)
MaxProjects == 2

(* parseInt(id) of the route parameter; NaN for a text with no leading
   digits *)
NaN == -1
IdParams == {"1", "2", "3", "2nd", "abc"}
ParseInt(text) ==
  CASE text = "1" -> 1
    [] text = "2" -> 2
    [] text = "3" -> 3
    [] text = "2nd" -> 2
    [] OTHER -> NaN

(* SELECT * FROM projects WHERE id = ? and WHERE api_key = ? *)
SelectById(id) == SelectSeq(projects, LAMBDA row : row.id = id)
SelectByApiKey(key) == SelectSeq(projects, LAMBDA row : row.api_key = key)

(* getProjectById, getProjectByApiKey and getAllProjects parse the
   function_map column of what they return *)
Parsed(row) == [row EXCEPT !.function_map = ParseStored(@)]

(* the project of a response, lines 24-33 of the project route *)
ProjectOf(row) ==
  [id |-> row.id, projectName |-> row.project_name, apiKey |-> row.api_key,
   githubUrl |-> row.github_url, scrapeUrl |-> row.scrape_url,
   functionMap |-> Parsed(row).function_map]

Answer(op, status, error, content) ==
  [NoReply EXCEPT !.op = op, !.status = status, !.error = error, !.body = content]

(* the answer with the route parameter, or the key, of its request *)
ToParam(param, answer) == [answer EXCEPT !.param = param]
ToKey(key, answer) == [answer EXCEPT !.key = key]

(* client r sends a request and has its answer *)
Served(r) ==
  /\ run[r].pc = "idle"
  /\ run' = [run EXCEPT ![r] = [@ EXCEPT !.pc = "done"]]

(* GET /api/projects/[id] *)
GetProject(r, param) ==
  /\ Served(r)
  /\ reply' =
       ToParam(param,
         IF ParseInt(param) = NaN
         THEN Answer("get", 400, "Invalid project ID", <<>>)
         ELSE IF SelectById(ParseInt(param)) = <<>>
         THEN Answer("get", 404, "Project not found", <<>>)
         ELSE Answer("get", 200, "", <<ProjectOf(SelectById(ParseInt(param))[1])>>))
  /\ UNCHANGED <<now, disk, projects, activity, sequence, projectStorage>>
  /\ UNCHANGED <<foreignKeys, page, frontend>>

(* Object.keys(value): a TypeError for null and undefined, the indices of
   an array or a string, nothing for a number *)
ObjectKeysThrows(v) == v.t \in {"null", "undefined"}
ObjectKeys(v) == DOMAIN OwnProps(v)

(* GET /api/projects, lines 61-81: one entry per row with its number of
   keys; a throw anywhere is answered 500 *)
ListEntry(row) ==
  [id |-> row.id, projectName |-> row.project_name, apiKey |-> row.api_key,
   githubUrl |-> row.github_url, scrapeUrl |-> row.scrape_url,
   functionMapCount |-> Cardinality(ObjectKeys(Parsed(row).function_map))]

ListProjects(r) ==
  /\ Served(r)
  /\ reply' =
       IF \E i \in 1..Len(projects) : ObjectKeysThrows(Parsed(projects[i]).function_map)
       THEN Answer("list", 500, "Failed to fetch projects", <<>>)
       ELSE Answer("list", 200, "", [i \in 1..Len(projects) |-> ListEntry(projects[i])])
  /\ UNCHANGED <<now, disk, projects, activity, sequence, projectStorage>>
  /\ UNCHANGED <<foreignKeys, page, frontend>>

(* DELETE FROM projects WHERE id = ?.  The activity table declares
   FOREIGN KEY (project_id) REFERENCES projects (id): where the database
   enforces foreign keys the statement throws for a project that an
   activity row references, where it does not the row is deleted. *)
Referenced(id) == \E i \in 1..Len(activity) : activity[i].project_id = id

(* a deletion that deletes nothing *)
Kept(id) == projects

(* a deletion after which the rows left are numbered anew *)
Renumbered(id) ==
  LET left == SelectSeq(projects, LAMBDA row : row.id # id)
  IN [i \in 1..Len(left) |-> [left[i] EXCEPT !.id = i]]

Without(id) == SelectSeq(projects, LAMBDA row : row.id # id)

(* DELETE /api/projects/[id] *)
DeleteProject(r, param) ==
  LET id == ParseInt(param) IN
  /\ Served(r)
  /\ IF id = NaN
     THEN /\ reply' = ToParam(param, Answer("delete", 400, "Invalid project ID", <<>>))
          /\ UNCHANGED projects
     ELSE IF SelectById(id) = <<>>
     THEN /\ reply' = ToParam(param, Answer("delete", 404, "Project not found", <<>>))
          /\ UNCHANGED projects
     ELSE IF foreignKeys /\ Referenced(id)
     THEN /\ reply' = ToParam(param, Answer("delete", 500, "Failed to delete project", <<>>))
          /\ UNCHANGED projects
     ELSE /\ reply' = ToParam(param, Answer("delete", 200, "", <<>>))
          /\ projects' = Without(id)
  /\ UNCHANGED <<now, disk, activity, sequence, projectStorage>>
  /\ UNCHANGED <<foreignKeys, page, frontend>>

(* generatePluginCode(functionMap): the script text, of which the embedded
   map is what differs *)
GeneratePluginCode(functionMap) == [FUNCTION_MAP |-> functionMap]

(* generatePlugin(apiKey), lib/api.ts lines 154-169 *)
GeneratePlugin(r, key) ==
  /\ Served(r)
  /\ reply' =
       ToKey(key,
         IF SelectByApiKey(key) = <<>>
         THEN Answer("plugin", 0, "// Plugin not found", <<>>)
         ELSE Answer("plugin", 0, "",
                     <<GeneratePluginCode(Parsed(SelectByApiKey(key)[1]).function_map)>>))
  /\ UNCHANGED <<now, disk, projects, activity, sequence, projectStorage>>
  /\ UNCHANGED <<foreignKeys, page, frontend>>

(* the lookup endpoint GET ?apiKey=: it reads projectStorage, the Map of
   api/analyze-project.ts *)
GetFunctionMap(r, key) ==
  /\ Served(r)
  /\ reply' =
       ToKey(key,
         IF key = NoKey
         THEN Answer("lookup", 400, "API key is required", <<>>)
         ELSE IF key \notin DOMAIN projectStorage
         THEN Answer("lookup", 404, "Invalid API key", <<>>)
         ELSE Answer("lookup", 200, "", <<JObject(projectStorage[key])>>))
  /\ UNCHANGED <<now, disk, projects, activity, sequence, projectStorage>>
  /\ UNCHANGED <<foreignKeys, page, frontend>>

(* mockAIAnalysis of api/analyze-project.ts *)
MockWebsiteMap ==
  Entry("main-header", "This is the main navigation header of the website")
  @@ Entry("hero-section", "The primary hero section that introduces the website")
  @@ Entry("contact-form", "A form for users to contact the website owners")
  @@ Entry("footer-links", "Footer navigation and social media links")
  @@ Entry("search-bar", "Search functionality for finding content on the site")

MockCodebaseMap ==
  Entry("login-component", "React component handling user authentication")
  @@ Entry("dashboard-nav", "Navigation component for the admin dashboard")
  @@ Entry("user-profile", "Component displaying and editing user profile information")
  @@ Entry("api-endpoints", "Backend API routes for data management")
  @@ Entry("config-file", "Application configuration and environment settings")

(* a set that stores nothing *)
MapSetNothing(key, value) == projectStorage

(* projectStorage.set(key, value) *)
MapSet(key, value) ==
  [k \in DOMAIN projectStorage \cup {key} |->
     IF k = key THEN value ELSE projectStorage[k]]

(* POST of api/analyze-project.ts: the map of the mock analysis is stored in
   projectStorage under a new key *)
AnalyzeProjectMock(r, names, scrapes, githubs, nonces) ==
  /\ Served(r)
  /\ \E projectName \in names, scrapeUrl \in scrapes, githubUrl \in githubs, n \in nonces :
       IF ~Truthy(projectName)
       THEN /\ reply' = Answer("analyze", 400, "Project name is required", <<>>)
            /\ UNCHANGED projectStorage
       ELSE IF ~Truthy(scrapeUrl) /\ ~Truthy(githubUrl)
       THEN /\ reply' = Answer("analyze", 400,
                               "Either scrapeUrl or githubUrl is required", <<>>)
            /\ UNCHANGED projectStorage
       ELSE LET functionMap == IF Truthy(scrapeUrl) THEN MockWebsiteMap
                               ELSE MockCodebaseMap
            IN
            /\ projectStorage' = MapSet(ApiKey(n), functionMap)
            /\ reply' = Answer("analyze", 200, "",
                               <<[apiKey |-> ApiKey(n), functionMap |-> JObject(functionMap)]>>)
  /\ UNCHANGED <<now, disk, projects, activity, sequence>>
  /\ UNCHANGED <<foreignKeys, page, frontend>>

(* the client has its answer and can send its next request *)
Answered(r) ==
  /\ run[r].pc = "done"
  /\ run' = [run EXCEPT ![r] = IdleRun]
  /\ reply' = NoReply
  /\ UNCHANGED <<now, disk, projects, activity, sequence, projectStorage>>
  /\ UNCHANGED <<foreignKeys, page, frontend>>

(***************************************************************************)
(* The LearningPlugin runtime (lib/api.ts, lines 241-421).  Its events are *)
(* those the document can dispatch to the plugin's nodes: a click by       *)
(* pointer, by keyboard on the focused button, or by script; a key press;  *)
(* a timer that fires.                                                     *)
(***************************************************************************)
MaxElements == 2
MaxModals == 2
MaxTimers == 2
MaxListeners == 3

Null == 0
ToggleNode == <<"toggle", 0>>
InfoNode(i) == <<"info", i>>
ModalNode(m) == <<"modal", m>>

(* the properties every object literal inherits from Object.prototype *)
PrototypeProps == {"constructor", "toString", "valueOf", "hasOwnProperty"}

Undefined == [t |-> "undefined", s |-> ""]

(* FUNCTION_MAP[learnId]: the own property, else the inherited one, else
   undefined *)
Lookup(map, learnId) ==
  IF learnId \in DOMAIN map THEN map[learnId]
  ELSE IF learnId \in PrototypeProps THEN [t |-> "function", s |-> learnId]
  ELSE Undefined

(* the truthiness of a looked-up value *)
TruthyValue(v) ==
  ~ \/ v.t \in {"undefined", "null"}
    \/ v.t = "string" /\ v.s = ""
    \/ v.t = "number" /\ v.s = "0"

LearnIds == {"main-header", "login-button", "toString"}
PluginMaps == {JSONParse(text).p : text \in {RespA, RespAB, RespEmpty}}

Min(a, b) == IF a < b THEN a ELSE b

NoListeners == [keydown |-> 0, scroll |-> 0, resize |-> 0]

(* the constructor and init, lines 242-277, in a document that has loaded *)
PageInit ==
  /\ now = 0
  /\ disk = [d \in Stamps |-> [exists |-> FALSE, url |-> ""]]
  /\ run = [r \in Runs |-> IdleRun]
  /\ projects = <<>>
  /\ activity = <<>>
  /\ sequence = 0
  /\ reply = NoReply
  /\ projectStorage = EmptyStorage
  /\ foreignKeys = TRUE
  /\ FUNCTION_MAP \in PluginMaps
  /\ elements \in UNION {[1..n -> LearnIds] : n \in 0..MaxElements}
  /\ isActive = FALSE
  /\ infoButtons = <<>>
  /\ currentModal = Null
  /\ body = {ToggleNode}
  /\ timers = 0
  /\ listeners = NoListeners
  /\ created = 0
  /\ triggered = {}
  /\ closing = {}
  /\ localStorage = EmptyLocalStorage
  /\ added = <<>>
  /\ loader = NoLoader

(* closeModal, lines 410-420: the removal is left to a timer *)
CloseModal(pending, calls) ==
  IF currentModal # Null THEN Min(pending + calls, MaxTimers) ELSE pending

(* the modals a close timer was set for, after one more call of closeModal *)
Closing == IF currentModal # Null THEN closing \cup {currentModal} ELSE closing

(* activateLearningMode with addInfoButton, lines 293-302 and 317-356: the
   elements whose looked-up value is truthy get a button *)
Learnable == SelectSeq(elements, LAMBDA learnId : TruthyValue(Lookup(FUNCTION_MAP, learnId)))

ActivateLearningMode ==
  /\ infoButtons' = infoButtons \o Learnable
  /\ body' = body \cup {InfoNode(i) : i \in 1..Len(infoButtons \o Learnable)}
  /\ listeners' = [listeners EXCEPT
                     !.scroll = Min(@ + Len(Learnable), MaxListeners),
                     !.resize = Min(@ + Len(Learnable), MaxListeners)]
  /\ UNCHANGED <<currentModal, timers, closing>>

(* deactivateLearningMode, lines 304-315 *)
DeactivateLearningMode ==
  /\ body' = body \ {InfoNode(i) : i \in 1..Len(infoButtons)}
  /\ infoButtons' = <<>>
  /\ timers' = CloseModal(timers, 1)
  /\ closing' = Closing
  /\ UNCHANGED <<currentModal, listeners>>

(* a click on the toggle button: toggle, lines 279-291 *)
Toggle ==
  /\ ToggleNode \in body
  /\ isActive' = ~isActive
  /\ IF ~isActive THEN ActivateLearningMode ELSE DeactivateLearningMode
  /\ UNCHANGED <<loader, FUNCTION_MAP, elements, created, triggered>>
  /\ UNCHANGED <<server, frontend>>

(* a click on an info button: showExplanation, lines 358-408 *)
ShowExplanation(i) ==
  /\ i \in 1..Len(infoButtons)
  /\ InfoNode(i) \in body
  /\ created < MaxModals
  /\ IF ~TruthyValue(Lookup(FUNCTION_MAP, infoButtons[i]))
     THEN UNCHANGED <<currentModal, body, listeners, created>>
     ELSE /\ created' = created + 1
          /\ body' = body \cup {ModalNode(created + 1)}
          /\ currentModal' = created + 1
          /\ listeners' = [listeners EXCEPT !.keydown = Min(@ + 1, MaxListeners)]
  /\ UNCHANGED <<loader, FUNCTION_MAP, elements, isActive, infoButtons, timers, triggered,
                 closing>>
  /\ UNCHANGED <<server, frontend>>

(* a click on the close control of an attached modal, line 390 *)
CloseClick(m) ==
  /\ ModalNode(m) \in body
  /\ timers' = CloseModal(timers, 1)
  /\ closing' = Closing
  /\ triggered' = triggered \cup {m}
  /\ UNCHANGED <<loader, FUNCTION_MAP, elements, isActive, infoButtons, currentModal, body,
                 listeners, created>>
  /\ UNCHANGED <<server, frontend>>

(* a click on the background of an attached modal, lines 391-393 *)
BackgroundClick(m) ==
  /\ ModalNode(m) \in body
  /\ timers' = CloseModal(timers, 1)
  /\ closing' = Closing
  /\ triggered' = triggered \cup {m}
  /\ UNCHANGED <<loader, FUNCTION_MAP, elements, isActive, infoButtons, currentModal, body,
                 listeners, created>>
  /\ UNCHANGED <<server, frontend>>

(* an Escape key press: every keydown listener registered at lines 395-397
   calls closeModal *)
Escape ==
  /\ listeners.keydown > 0
  /\ timers' = CloseModal(timers, listeners.keydown)
  /\ closing' = Closing
  /\ triggered' = triggered \cup {m \in 1..MaxModals : ModalNode(m) \in body}
  /\ UNCHANGED <<loader, FUNCTION_MAP, elements, isActive, infoButtons, currentModal, body,
                 listeners, created>>
  /\ UNCHANGED <<server, frontend>>

(* a close timer fires, lines 413-418 *)
TimerFires ==
  /\ timers > 0
  /\ timers' = timers - 1
  /\ body' = IF currentModal # Null THEN body \ {ModalNode(currentModal)} ELSE body
  /\ currentModal' = Null
  /\ UNCHANGED <<loader, FUNCTION_MAP, elements, isActive, infoButtons, listeners, created,
                 triggered, closing>>
  /\ UNCHANGED <<server, frontend>>

NextPlugin ==
  \/ Toggle
  \/ \E i \in 1..MaxElements : ShowExplanation(i)
  \/ \E m \in 1..MaxModals : CloseClick(m)
  \/ \E m \in 1..MaxModals : BackgroundClick(m)
  \/ Escape
  \/ TimerFires

SpecPlugin == PageInit /\ [][NextPlugin]_vars

(* a timer set by setTimeout fires once its delay has passed *)
SpecPluginFair == SpecPlugin /\ WF_vars(TimerFires)

(***************************************************************************)
(* The fetching variant (components/ProjectsList.tsx, lines 232-461): the  *)
(* constructor and init read the key of the script tag; loadFunctionMap    *)
(* fetches the map; the runtime is that of the embedded variant, with      *)
(* this.functionMap in the place of FUNCTION_MAP.                          *)
(***************************************************************************)
ScriptKeys == {"", "learn_1"}

(* how the fetch of the lookup endpoint can end *)
FetchFailures == {"network error", "not ok", "body is not JSON"}

(* new LearningPlugin() up to the call of init, lines 233-241 *)
FetchInit ==
  /\ now = 0
  /\ disk = [d \in Stamps |-> [exists |-> FALSE, url |-> ""]]
  /\ run = [r \in Runs |-> IdleRun]
  /\ projects = <<>>
  /\ activity = <<>>
  /\ sequence = 0
  /\ reply = NoReply
  /\ projectStorage = EmptyStorage
  /\ foreignKeys = TRUE
  /\ FUNCTION_MAP = NoProps
  /\ elements \in UNION {[1..n -> LearnIds] : n \in 0..MaxElements}
  /\ isActive = FALSE
  /\ infoButtons = <<>>
  /\ currentModal = Null
  /\ body = {}
  /\ timers = 0
  /\ listeners = NoListeners
  /\ created = 0
  /\ triggered = {}
  /\ closing = {}
  /\ localStorage = EmptyLocalStorage
  /\ added = <<>>
  /\ \E key \in ScriptKeys :
       loader = [pc |-> "init", apiKey |-> key, outcome |-> "", logged |-> 0]

(* init, lines 244-262: without a key it logs and returns; with one it
   issues the fetch *)
InitPlugin ==
  /\ loader.pc = "init"
  /\ loader' = IF ~Truthy(loader.apiKey)
                THEN [loader EXCEPT !.pc = "inert", !.logged = @ + 1]
                ELSE [loader EXCEPT !.pc = "fetching"]
  /\ UNCHANGED <<FUNCTION_MAP, elements, isActive, infoButtons, currentModal, body,
                 timers, listeners, created, triggered, closing>>
  /\ UNCHANGED <<server, frontend>>

(* createToggleButton, lines 276-297 *)
CreateToggleButton == body \cup {ToggleNode}

(* the fetch settles: loadFunctionMap, lines 264-274, stores the map or
   catches and logs the failure and resolves either way, and the callback
   of lines 259-261 runs *)
LoadFunctionMap ==
  /\ loader.pc = "fetching"
  /\ \/ \E map \in PluginMaps :
          /\ FUNCTION_MAP' = map
          /\ loader' = [loader EXCEPT !.pc = "loaded", !.outcome = "ok"]
     \/ \E failure \in FetchFailures :
          /\ loader' = [loader EXCEPT !.pc = "loaded", !.outcome = failure,
                                      !.logged = @ + 1]
          /\ UNCHANGED FUNCTION_MAP
  /\ body' = CreateToggleButton
  /\ UNCHANGED <<elements, isActive, infoButtons, currentModal, timers, listeners,
                 created, triggered, closing>>
  /\ UNCHANGED <<server, frontend>>

NextFetch ==
  \/ InitPlugin
  \/ LoadFunctionMap
  \/ Toggle
  \/ \E i \in 1..MaxElements : ShowExplanation(i)
  \/ \E m \in 1..MaxModals : CloseClick(m)
  \/ \E m \in 1..MaxModals : BackgroundClick(m)
  \/ Escape
  \/ TimerFires

SpecFetch == FetchInit /\ [][NextFetch]_vars

(***************************************************************************)
(* One creation request, on either path, with every raw response.          *)
(***************************************************************************)
Names == {"", "Docs Site"}
ScrapeUrls == {"", "https://example.com"}
GithubUrls == {""} \cup RepoUrls

NextAnalyze ==
  \/ Receive("r1", Names, ScrapeUrls, GithubUrls, {1})
  \/ Launch("r1")
  \/ NewPage("r1")
  \/ Goto("r1")
  \/ Evaluate("r1")
  \/ Close("r1")
  \/ GeneratePage("r1", Responses)
  \/ CatchClose("r1")
  \/ GitClone("r1")
  \/ CloneFailed("r1")
  \/ Walk("r1")
  \/ GenerateFile("r1", Responses)

SpecAnalyze == Init /\ [][NextAnalyze]_vars

(***************************************************************************)
(* The store over time: creation requests one after the other, with reads, *)
(* deletions, plugin generations and lookups between their steps.          *)
(***************************************************************************)
StoreScrapeUrls == {"", "https://example.com"}
StoreGithubUrls == {"", UrlSmall, UrlMissing}
StoreResponses == {RespA, RespNull}
Nonces == {1, 2}
KeyParams == {NoKey} \cup {ApiKey(n) : n \in 1..3}

StoreInit ==
  /\ now = 0
  /\ disk = [d \in Stamps |-> [exists |-> FALSE, url |-> ""]]
  /\ run = [r \in Runs |-> IdleRun]
  /\ projects = <<>>
  /\ activity = <<>>
  /\ sequence = 0
  /\ reply = NoReply
  /\ projectStorage = EmptyStorage
  /\ foreignKeys \in BOOLEAN
  /\ FUNCTION_MAP = NoProps
  /\ elements = <<>>
  /\ isActive = FALSE
  /\ infoButtons = <<>>
  /\ currentModal = Null
  /\ body = {}
  /\ timers = 0
  /\ listeners = NoListeners
  /\ created = 0
  /\ triggered = {}
  /\ closing = {}
  /\ localStorage = EmptyLocalStorage
  /\ added = <<>>
  /\ loader = NoLoader

(* a creation request, while the store has ids to give *)
Create(r) ==
  /\ sequence < MaxProjects
  /\ Receive(r, {"Docs Site"}, StoreScrapeUrls, StoreGithubUrls, Nonces)

NextStore ==
  \/ Create("r1")
  \/ Launch("r1")
  \/ NewPage("r1")
  \/ Goto("r1")
  \/ Evaluate("r1")
  \/ Close("r1")
  \/ GeneratePage("r1", StoreResponses)
  \/ CatchClose("r1")
  \/ GitClone("r1")
  \/ CloneFailed("r1")
  \/ Walk("r1")
  \/ GenerateFile("r1", StoreResponses)
  \/ Answered("r1")
  \/ \E param \in IdParams : GetProject("r1", param)
  \/ ListProjects("r1")
  \/ \E param \in IdParams : DeleteProject("r1", param)
  \/ \E key \in KeyParams : GeneratePlugin("r1", key)
  \/ \E key \in KeyParams : GetFunctionMap("r1", key)
  \/ AnalyzeProjectMock("r1", Names, StoreScrapeUrls, {"", UrlSmall}, {1})

SpecStore == StoreInit /\ [][NextStore]_vars

(* What the awaited calls guarantee.  The browser calls settle: launch and
   page.goto reject after Playwright's default timeout of 30 s when they do
   not complete.  A generation call settles, and the synchronous code after
   a settled await runs.  git.clone(githubUrl, tempDir) of line 116 is given
   no timeout and no abort signal, and git sets none of its own: it settles
   only if the git process ends. *)
SpecAnalyzeFair ==
  /\ SpecAnalyze
  /\ WF_vars(Launch("r1"))
  /\ WF_vars(NewPage("r1"))
  /\ WF_vars(Goto("r1"))
  /\ WF_vars(Evaluate("r1"))
  /\ WF_vars(Close("r1"))
  /\ WF_vars(GeneratePage("r1", Responses))
  /\ WF_vars(CatchClose("r1"))
  /\ WF_vars(CloneFailed("r1"))
  /\ WF_vars(Walk("r1"))
  /\ WF_vars(GenerateFile("r1", Responses))

(***************************************************************************)
(* Two concurrent repository analyses.  The keys of two requests differ.   *)
(***************************************************************************)
ConcurrentUrls == {UrlSmall, UrlDangling, UrlMissing}
ConcurrentResponses == {RespA, RespProse}
NonceOf(r) == IF r = "r1" THEN 1 ELSE 2

NextRepo ==
  \/ Tick
  \/ \E r \in Runs :
       \/ Receive(r, {"Docs Site"}, {""}, ConcurrentUrls, {NonceOf(r)})
       \/ GitClone(r)
       \/ CloneFailed(r)
       \/ Walk(r)
       \/ GenerateFile(r, ConcurrentResponses)

SpecRepo == Init /\ [][NextRepo]_vars


(***************************************************************************)
(* Claims about the creation request and the analyses.                     *)
(***************************************************************************)
Began(r) == run[r].pc # "idle"
Done(r) == run[r].pc = "done"
BothTargets(r) == Truthy(run[r].scrapeUrl) /\ Truthy(run[r].githubUrl)
NoTarget(r) == ~Truthy(run[r].scrapeUrl) /\ ~Truthy(run[r].githubUrl)
OneTarget(r) == ~BothTargets(r) /\ ~NoTarget(r)
PageTarget(r) == Truthy(run[r].scrapeUrl)

ClassifiedError(resp) == resp.status \in {400, 500} /\ resp.error # ""
KeyFormat(key) == key.prefix = "learn_" /\ key.encoding = "hex" /\ key.length = 32
MapWithEntry(v) == v.t = "object" /\ DOMAIN v.p # {}

(* C1: a request with both targets set, or with neither, is answered with a
   validation error (status 400) at once, and no browser launch, clone,
   generation call or insert is made for it. *)
C1_BothOrNeitherRejected ==
  \A r \in Runs :
    (Began(r) /\ (BothTargets(r) \/ NoTarget(r)))
      => /\ Done(r)
         /\ run[r].response.status = 400
         /\ run[r].calls = NoCalls

(* C2: a finished request with a non-empty project name and exactly one
   target either carries a classified error or carries a key of the form
   learn_ + 32 hex digits and a function map with at least one entry. *)
C2_ErrorOrKeyAndNonEmptyMap ==
  \A r \in Runs :
    (Done(r) /\ Truthy(run[r].projectName) /\ OneTarget(r))
      => \/ ClassifiedError(run[r].response)
         \/ /\ run[r].response.status = 200
            /\ KeyFormat(run[r].response.apiKey)
            /\ MapWithEntry(run[r].response.functionMap)

(* C3: when no raw response of a successful analysis was the text of a JSON
   object, the map returned is exactly the fallback map of the kind. *)
C3_NoObjectGivesFallback ==
  \A r \in Runs :
    (Done(r) /\ run[r].response.status = 200 /\ ~run[r].heard.valid)
      => run[r].response.functionMap =
           IF PageTarget(r) THEN WebsiteFallback ELSE RepositoryFallback

(* C4: on the repository path, when valid and invalid responses both
   arrived, the map returned is the union of the valid responses' entries,
   the later response winning (the fallback when that union is empty). *)
C4_UnionOfValidResponses ==
  \A r \in Runs :
    (Done(r) /\ run[r].response.status = 200 /\ ~PageTarget(r)
     /\ run[r].heard.valid /\ run[r].heard.invalid)
      => run[r].response.functionMap =
           IF DOMAIN run[r].heard.union # {}
           THEN JObject(run[r].heard.union) ELSE RepositoryFallback

(* a path names no hidden entry and lies under no excluded directory *)
CleanPath(path) ==
  \A i \in 1..Len(path) :
    /\ ~StartsWithDot(path[i])
    /\ i < Len(path) => path[i] \notin ExcludedDirs

(* C5: the files handed on by the repository extractor are at most 10, and
   none is a hidden entry or lies under a hidden or excluded directory. *)
C5_AtMostTenCleanFiles ==
  \A r \in Runs :
    /\ run[r].idx <= FileLimit
    /\ run[r].calls.generate <= FileLimit
    /\ \A i \in 1..Len(Slice(run[r].files)) : CleanPath(run[r].files[i].path)

(* C6: in the step in which analyzeRepository returns or throws, its
   temporary directory does not exist on disk afterwards. *)
C6_TempDirGoneAtExit ==
  [][\A r \in Runs :
       (run[r].calls.clone > 0 /\ ~Done(r) /\ run'[r].pc = "done")
         => ~disk'[run[r].tempDir].exists]_vars

(* C6 witness: a walk threw on a cloned tree and the request has ended *)
C6_Witness ==
  \E r \in Runs :
    /\ Done(r)
    /\ run[r].response.error = "ENOENT: no such file or directory, stat"
    /\ ~disk[run[r].tempDir].exists

InFlight(r) == Began(r) /\ ~Done(r)
AloneSucceeds(url) == Clonable(url) /\ ~ScanThrows(RepoTree(url))

(* C7: two concurrent repository analyses never share a temporary
   directory, each walks the repository it cloned, and each ends as it would
   alone: with a map when its repository can be cloned and walked, with a
   failure otherwise. *)
C7_RunsDoNotInterfere ==
  /\ \A r1, r2 \in Runs :
       (r1 # r2 /\ InFlight(r1) /\ InFlight(r2)) => run[r1].tempDir # run[r2].tempDir
  /\ \A r \in Runs :
       /\ run[r].walked \in {"", run[r].githubUrl}
       /\ Done(r) => (run[r].response.status = 200 <=> AloneSucceeds(run[r].githubUrl))


(***************************************************************************)
(* The activity log of the mock storage (lib/analysis-service.ts, lines    *)
(* 247-337), kept in localStorage as JSON text and decimal text.           *)
(***************************************************************************)
MaxAdds == 52
MaxDraws == 1

(* lines 331-332: the log keeps 50 entries *)
ActivityLimit == 50

(* mockStorage.getActivities, lines 264-267 *)
GetActivities ==
  IF localStorage.activities = NoItem THEN <<>> ELSE localStorage.activities.json

(* mockStorage.saveActivities, lines 269-271 *)
SaveActivities(activities) == [kind |-> "json", json |-> activities]

(* (n).toString() and parseInt(text, 10) of such a text *)
NumberToString(n) == [kind |-> "text", digits |-> n]
ParseInt10(text) == text.digits

(* mockStorage.getNextId, lines 273-278: the id it returns, and the item it
   leaves *)
NextId == IF localStorage.nextId = NoItem THEN 1 ELSE ParseInt10(localStorage.nextId)
NextIdItem == NumberToString(NextId + 1)

(* a call of mockStorage.getNextId by itself *)
GetNextId ==
  /\ NextId - 1 - Len(added) < MaxDraws
  /\ localStorage' = [localStorage EXCEPT !.nextId = NextIdItem]
  /\ UNCHANGED <<added, server, page>>

(* activities.push(newActivity) *)
Push(activities, newActivity) == Append(activities, newActivity)

(* activities.unshift(newActivity) *)
Unshift(activities, newActivity) == <<newActivity>> \o activities

(* if (activities.length > 50) activities.splice(50) *)
Splice(activities) ==
  IF Len(activities) > ActivityLimit THEN SubSeq(activities, 1, ActivityLimit)
  ELSE activities

(* addActivity, lines 320-337 *)
AddActivity(projectId, projectName, action) ==
  /\ Len(added) < MaxAdds
  /\ LET newActivity == [id |-> NextId, projectId |-> projectId,
                         projectName |-> projectName, action |-> action,
                         timestamp |-> now]
     IN /\ localStorage' =
             [activities |-> SaveActivities(Splice(Unshift(GetActivities, newActivity))),
              nextId |-> NextIdItem]
        /\ added' = <<newActivity>> \o added
  /\ UNCHANGED <<server, page>>

NextActivity ==
  \/ AddActivity(1, "Docs Site", "Project created")
  \/ GetNextId

SpecActivity == Init /\ [][NextActivity]_vars

(***************************************************************************)
(* Claims about the plugin runtime.                                        *)
(***************************************************************************)
InfoShown == Cardinality({n \in body : n[1] = "info"})
ModalsAttached == {n \in body : n[1] = "modal"}

(* the elements whose data-learn-id value is a key of the map *)
Keyed == {i \in 1..Len(elements) : elements[i] \in DOMAIN FUNCTION_MAP}

(* C8: with learning mode ON exactly as many info buttons are shown as there
   are elements whose data-learn-id is a key of the map, and none with
   learning mode OFF. *)
C8_AffordancesMatchKeys ==
  InfoShown = IF isActive THEN Cardinality(Keyed) ELSE 0

(* a document none of whose marked elements names an inherited property *)
PlainDocument == \A i \in 1..Len(elements) : elements[i] \notin PrototypeProps

(* C9: after a modal was opened, once learning mode is OFF and every close
   timer has fired, no node of the plugin but the toggle button is attached
   and currentModal is null (stated for plain documents). *)
C9_OnlyToggleRemains ==
  (PlainDocument /\ created > 0 /\ ~isActive /\ timers = 0)
    => (body = {ToggleNode} /\ currentModal = Null)

(* C10: at most one modal overlay is attached to the document (stated for
   plain documents). *)
C10_AtMostOneModal == PlainDocument => Cardinality(ModalsAttached) <= 1

(* C11: an open modal (attached and current) to which a background click,
   a click on its close control or an Escape key press was dispatched is
   eventually detached from the document with currentModal null (stated for
   plain documents). *)
C11_TriggerDetachesModal ==
  \A m \in 1..MaxModals :
    (PlainDocument /\ m \in triggered /\ ModalNode(m) \in body /\ currentModal = m)
      ~> (ModalNode(m) \notin body /\ currentModal = Null)

(* C12: with learning mode OFF the plugin has no scroll or resize listener
   registered on window, as before the first activation (stated for plain
   documents). *)
C12_WindowListenersRemoved ==
  (PlainDocument /\ ~isActive) => (listeners.scroll = 0 /\ listeners.resize = 0)

(* C13: once the fetch of the function map has failed, the failure has been
   logged and no toggle button (nor any other node of the plugin) is
   attached to the document. *)
C13_FailedFetchStaysInert ==
  loader.outcome \in FetchFailures => (loader.logged > 0 /\ body = {})

(* the failures of the extraction stage: the browser, the page load and its
   evaluation; the clone, the walk and the reading of the files *)
ExtractionFailures ==
  {"browser launch failed", "page creation failed", "navigation failed",
   "evaluation failed", "destination path already exists", "repository not found",
   "ENOENT: no such file or directory, scandir",
   "ENOENT: no such file or directory, stat",
   "ENOENT: no such file or directory"}

(* C14: a request whose extraction failed is answered with a failure that
   carries the cause and no map; no insert was made for it, no project row
   holds its key and every activity record belongs to a stored project. *)
C14_ExtractionFailureIsFatal ==
  \A r \in Runs :
    (Done(r) /\ run[r].caught \in ExtractionFailures)
      => /\ run[r].response = Error(500, run[r].caught)
         /\ run[r].calls.insert = 0
         /\ \A i \in 1..Len(projects) : projects[i].api_key # run[r].apiKey
         /\ \A i \in 1..Len(activity) :
              \E j \in 1..Len(projects) : projects[j].id = activity[i].project_id

(* C14 witness: the page load failed and the request was answered *)
C14_Witness ==
  /\ Done("r1")
  /\ run["r1"].caught = "navigation failed"
  /\ run["r1"].response.status = 500
  /\ run["r1"].calls.launch = 1

(* C15: a repository analysis in which a generation call threw still ends
   with a map: a generation call was made for every file of the capped
   list, and every entry of the responses that were JSON objects is in the
   map returned, the later response winning. *)
C15_FailedFileIsSkipped ==
  \A r \in Runs :
    (Done(r) /\ run[r].heard.threw)
      => /\ run[r].response.status = 200
         /\ run[r].calls.generate = Len(Slice(run[r].files))
         /\ \A k \in DOMAIN run[r].heard.union :
              /\ k \in DOMAIN run[r].response.functionMap.p
              /\ run[r].response.functionMap.p[k] = run[r].heard.union[k]

(* C15 witness: of the two files of a repository one generation call threw
   and the other's response was parsed into the map *)
C15_Witness ==
  /\ Done("r1")
  /\ run["r1"].heard.threw
  /\ run["r1"].heard.valid
  /\ run["r1"].calls.generate = 2
  /\ run["r1"].response.functionMap = JObject(Entry("main-header", "Site header"))

(* C16: when the page analysis of a request has ended after its browser was
   launched, the browser has been closed. *)
C16_BrowserClosedAtExit ==
  \A r \in Runs : (Done(r) /\ run[r].browser # "none") => run[r].browser = "closed"

(* C17: every analyze call that was begun eventually returns to its caller,
   and the request is answered. *)
C17_EveryAnalyzeCallReturns == Began("r1") ~> Done("r1")

(* C18: a request has generated an access key only once its analysis has
   returned a map (the request then goes on to the insert); a request that
   is being analysed, or whose analysis failed, has generated none. *)
C18_KeyIssuedAfterAnalysis ==
  \A r \in Runs : run[r].apiKey # NoKey => (Done(r) /\ run[r].calls.insert > 0)

(* C19: no step changes the access key or the function map of a project
   that exists before and after it. *)
C19_KeyAndMapNeverChange ==
  [][\A i \in 1..Len(projects) : \A j \in 1..Len(projects') :
       projects[i].id = projects'[j].id
         => /\ projects[i].api_key = projects'[j].api_key
            /\ projects[i].function_map = projects'[j].function_map]_vars

(* C19 witness: of two projects the first was deleted, and the plugin of
   the second was then generated from its stored map *)
C19_Witness ==
  /\ Len(projects) = 1
  /\ projects[1].id = 2
  /\ reply.op = "plugin"
  /\ reply.body = <<GeneratePluginCode(ParseStored(projects[1].function_map))>>

(* C20: every project row holds exactly one of scrape_url and github_url
   (a column that was given no url is NULL, the empty text here). *)
C20_ExactlyOneTargetStored ==
  \A i \in 1..Len(projects) :
    Truthy(projects[i].scrape_url) # Truthy(projects[i].github_url)

(* C21: the map of a successful analysis is built from the responses that
   are objects of non-empty strings to non-empty strings alone: it is the
   union of their entries, the later winning; when they give no entry it
   is the fallback of the kind, or empty. *)
C21_MapOfStringsToStrings ==
  \A r \in Runs :
    (Done(r) /\ run[r].response.status = 200)
      => IF DOMAIN run[r].heard.strict # {}
         THEN run[r].response.functionMap = JObject(run[r].heard.strict)
         ELSE run[r].response.functionMap \in
                {JObject(NoProps),
                 IF PageTarget(r) THEN WebsiteFallback ELSE RepositoryFallback}

(* a creation request of r is answered with success in this step *)
SucceedsNow(r) ==
  ~Done(r) /\ run'[r].pc = "done" /\ run'[r].response.status = 200

(* C22: a step in which a creation request is answered with success appends
   exactly one 'Project created' record, which names the id of the project
   that the request created; every other step leaves the activity log as it
   is.  The records are then as many as the requests that succeeded. *)
C22_OneRecordPerSuccess ==
  [][IF \E r \in Runs : SucceedsNow(r)
     THEN \E r \in Runs :
            /\ SucceedsNow(r)
            /\ Len(activity') = Len(activity) + 1
            /\ SubSeq(activity', 1, Len(activity)) = activity
            /\ activity'[Len(activity')].action = "Project created"
            /\ activity'[Len(activity')].project_id = run'[r].response.id
            /\ \E i \in 1..Len(projects') :
                 /\ projects'[i].id = run'[r].response.id
                 /\ projects'[i].api_key = run'[r].apiKey
                 /\ \A j \in 1..Len(projects) : projects[j].id # projects'[i].id
     ELSE activity' = activity]_vars

(* C22 witness: the second creation request has succeeded and the log holds
   one record for each project *)
C22_Witness ==
  /\ Done("r1")
  /\ run["r1"].response.status = 200
  /\ run["r1"].response.id = 2
  /\ Len(activity) = 2
  /\ activity[1].project_id = 1
  /\ activity[2].project_id = 2

(* a plugin generation is answered from the rows the store holds: the
   not-found script for a key no row holds, the plugin with the row's map
   otherwise *)
PluginResolves ==
  reply.op = "plugin"
    => IF \E i \in 1..Len(projects) : projects[i].api_key = reply.key
       THEN \E i \in 1..Len(projects) :
              /\ projects[i].api_key = reply.key
              /\ reply.body = <<GeneratePluginCode(ParseStored(projects[i].function_map))>>
       ELSE reply.error = "// Plugin not found" /\ reply.body = <<>>

(* a deletion answered with success removes the row of its id, after which
   no row holds that row's key, and leaves every other row as it is *)
DeleteRevokes ==
  (reply'.op = "delete" /\ reply'.status = 200 /\ reply.op = "")
    => \E i \in 1..Len(projects) :
         /\ projects[i].id = ParseInt(reply'.param)
         /\ \A j \in 1..Len(projects') : projects'[j].api_key # projects[i].api_key
         /\ projects' = SelectSeq(projects, LAMBDA row : row.id # projects[i].id)

(* C23: once a project is deleted no row holds its key, so a plugin
   generation for the key gives the not-found script, while the keys of the
   other projects resolve to their maps as before. *)
C23_DeletedKeyIsRevoked == []PluginResolves /\ [][DeleteRevokes]_vars

(* C23 witness: the first of two projects was deleted; a plugin generation
   for its key is answered with the not-found script and the second project
   is still stored *)
C23_Witness ==
  /\ reply.op = "plugin"
  /\ reply.key = ApiKey(1)
  /\ reply.error = "// Plugin not found"
  /\ Len(activity) = 2
  /\ Len(projects) = 1
  /\ projects[1].api_key = ApiKey(2)

UniqueKeys ==
  \A i, j \in 1..Len(projects) : projects[i].api_key = projects[j].api_key => i = j

(* a creation request whose key a stored row holds ends in this step *)
EndsWithKeyInUse(r) ==
  /\ ~Done(r)
  /\ run'[r].pc = "done"
  /\ run[r].apiKey # NoKey
  /\ \E i \in 1..Len(projects) : projects[i].api_key = run[r].apiKey

(* C24: no two project rows hold the same api key, and a creation request
   whose generated key is that of a stored row adds no row. *)
C24_KeysAreUnique ==
  /\ []UniqueKeys
  /\ [][\A r \in Runs : EndsWithKeyInUse(r) => projects' = projects]_vars

(* C24 witness: the analysis of a request succeeded, its insert was refused
   because the only stored row holds its key, and the store is as before *)
C24_Witness ==
  /\ Done("r1")
  /\ run["r1"].calls.insert = 1
  /\ run["r1"].response.error = "Failed to create project"
  /\ Len(projects) = 1
  /\ projects[1].api_key = run["r1"].apiKey

(* a lookup is answered 400 without a key, 404 for a key that Map holds no
   map for, and otherwise 200 with the map held for the key *)
LookupClassified ==
  reply.op = "lookup"
    => IF reply.key = NoKey
       THEN reply.status = 400 /\ reply.error # "" /\ reply.body = <<>>
       ELSE IF reply.key \notin DOMAIN projectStorage
       THEN reply.status = 404 /\ reply.error # "" /\ reply.body = <<>>
       ELSE /\ reply.status = 200
            /\ reply.error = ""
            /\ reply.body = <<JObject(projectStorage[reply.key])>>

(* the Map holds, for a key, the map that the analyze request which issued
   the key returned: that request puts it there and nothing else writes *)
StorageFollowsAnalyze ==
  IF reply.op = "" /\ reply'.op = "analyze" /\ reply'.status = 200
  THEN /\ DOMAIN projectStorage' = DOMAIN projectStorage \cup {reply'.body[1].apiKey}
       /\ \A k \in DOMAIN projectStorage' :
            projectStorage'[k] =
              IF k = reply'.body[1].apiKey THEN reply'.body[1].functionMap.p
              ELSE projectStorage[k]
  ELSE projectStorage' = projectStorage

(* C25: the lookup endpoint answers 400 when no key is given, 404 when the
   key is that of no stored analysis, and otherwise 200 with the function
   map that the analyze request which issued the key returned. *)
C25_LookupClassifiesEveryRequest ==
  []LookupClassified /\ [][StorageFollowsAnalyze]_vars

(* C25 witness: a lookup with the key that the analysis of a repository
   issued is answered with that analysis's map *)
C25_Witness ==
  /\ reply.op = "lookup"
  /\ reply.key = ApiKey(1)
  /\ reply.status = 200
  /\ reply.body = <<JObject(MockCodebaseMap)>>

(* C26: a close timer set for one modal never removes another: once every
   timer has fired, a modal that was closed before a second one was opened
   is detached, and the second one, for which no close was requested, is
   still attached and referenced by currentModal (stated for plain
   documents). *)
C26_TimerRemovesItsOwnModal ==
  \A first, second \in 1..MaxModals :
    ( /\ PlainDocument
      /\ first < second /\ second <= created
      /\ first \in closing /\ second \notin closing
      /\ timers = 0 )
      => /\ ModalNode(first) \notin body
         /\ ModalNode(second) \in body
         /\ currentModal = second

(* C27: the plugin does not accumulate listeners on document: once no modal
   is open (none attached, currentModal null) no keydown listener of the
   plugin is registered on document (stated for plain documents). *)
C27_NoKeydownListenerLeft ==
  (PlainDocument /\ currentModal = Null /\ ModalsAttached = {})
    => listeners.keydown = 0

(* the step in which a creation request gets its response *)
CreationEnds(r) == ~Done(r) /\ run'[r].pc = "done" /\ run'[r].response # NoResponse

(* a creation answered with an error leaves the rows as they are; a row is
   added only by a creation that is answered with success, as the last row,
   and the response carries that row's id and key *)
AllOrNothing ==
  /\ \A r \in Runs :
       (CreationEnds(r) /\ run'[r].response.status # 200) => projects' = projects
  /\ Len(projects') > Len(projects)
       => \E r \in Runs :
            /\ CreationEnds(r)
            /\ run'[r].response.status = 200
            /\ projects' = Append(projects, projects'[Len(projects')])
            /\ run'[r].response.id = projects'[Len(projects')].id
            /\ run'[r].response.apiKey = projects'[Len(projects')].api_key
            /\ run'[r].apiKey = projects'[Len(projects')].api_key
  /\ \A r \in Runs :
       (CreationEnds(r) /\ run'[r].response.status = 200)
         => Len(projects') = Len(projects) + 1

(* C28: creation is all-or-nothing: a creation request answered with an
   error added no project row, and whenever a row was added the response
   reports success with the id and the key of that row. *)
C28_CreationAllOrNothing == [][AllOrNothing]_vars

(* C28 witness: both outcomes have happened: the first creation added row 1
   and the one that just ended was refused with 500 after its analysis had
   succeeded, with the store still holding that one row *)
C28_Witness ==
  /\ Done("r1")
  /\ run["r1"].response.status = 500
  /\ run["r1"].response.error = "Failed to create project"
  /\ run["r1"].calls.insert > 0
  /\ Len(projects) = 1

(* C29: listing never fails because of stored data: whatever texts the
   generation backend returned for the projects created, GET /api/projects
   is answered 200 with one entry for each stored row, each with a number
   as its functionMapCount. *)
C29_ListingNeverFails ==
  reply.op = "list"
    => /\ reply.status = 200
       /\ Len(reply.body) = Len(projects)
       /\ \A i \in 1..Len(reply.body) : reply.body[i].functionMapCount \in Nat

(* C30: the activity log is bounded and newest-first: the stored list holds
   at most 50 entries, they are the most recently added ones with the newest
   first, and their ids are distinct, each later entry having got a greater
   id from getNextId. *)
C30_LogBoundedNewestFirst ==
  LET stored == GetActivities IN
    /\ Len(stored) <= ActivityLimit
    /\ stored = SubSeq(added, 1, Min(Len(added), ActivityLimit))
    /\ \A i, j \in 1..Len(stored) : i < j => stored[i].id > stored[j].id
    /\ \A i \in 1..Len(stored) : stored[i].id < NextId

(* C30 witness: more activities were added than the log keeps, an id was
   drawn in between, and the log holds 50 of them from the newest on *)
C30_Witness ==
  /\ Len(added) = ActivityLimit + 2
  /\ NextId = ActivityLimit + 4
  /\ Len(GetActivities) = ActivityLimit
  /\ GetActivities[1] = added[1]
  /\ GetActivities[1].id > ActivityLimit + 2

=============================================================================
